---- MODULE Spec2Model ----
(***************************************************************************)
(* A model of nvquery's NvmlReader (src/src/nvquery/nvquery.py): the       *)
(* constructor, log_header, log_samples, set_last_seen and __exit__, run   *)
(* against an NVML library whose devices keep producing time-stamped       *)
(* samples and whose sample query may fail with an NVMLError. Spec is the  *)
(* reader on a library that returns only samples newer than the timeStamp  *)
(* it is given, SpecStale the polling on a library that does not.          *)
(*                                                                         *)
(* Python lists are sequences here, so the element the code calls          *)
(* handles[id] is handles[id + 1].                                         *)
(***************************************************************************)
EXTENDS Integers, Sequences, FiniteSets, TLC

(***************************************************************************)
(* Bounds of the model.                                                    *)
(***************************************************************************)
\* The number of samples all devices together produce.
MaxSamples == 3
\* The number of log_header calls.
MaxHeaders == 2
\* The number of sample lines in a log up to which log_samples is called on
\* a library that returns a sample more than once.
MaxLines == 3

(***************************************************************************)
(* The module-level tables and the inputs the model draws.                 *)
(***************************************************************************)
\* _SAMPLE_VALUE_TYPE_TO_FIELD: the members of the nvmlValue_t union.
FieldNames == {"dVal", "uiVal", "ulVal", "ullVal", "sllVal", "siVal", "usVal"}

\* _SAMPLE_VALUE_TYPE_TO_FIELD.get(value_type); "None" is Python's None.
SampleValueTypeToField(value_type) ==
    CASE value_type = 0 -> "dVal"
      [] value_type = 1 -> "uiVal"
      [] value_type = 2 -> "ulVal"
      [] value_type = 3 -> "ullVal"
      [] value_type = 4 -> "sllVal"
      [] value_type = 5 -> "siVal"
      [] value_type = 6 -> "usVal"
      [] OTHER -> "None"

\* _SAMPLING_TYPE_TO_HEADER.get(sampling_type).
SamplingTypeToHeader(type) ==
    CASE type = "NVML_TOTAL_POWER_SAMPLES" -> "Power"
      [] type = "NVML_MEMORY_UTILIZATION_SAMPLES" -> "Memory Util"
      [] type = "NVML_GPU_UTILIZATION_SAMPLES" -> "GPU Util"
      [] type = "NVML_PROCESSOR_CLK_SAMPLES" -> "GPU Clk"
      [] type = "NVML_MEMORY_CLK_SAMPLES" -> "Memory Clk"
      [] OTHER -> "None"

\* The list __init__ tests sampling_type against.
SupportedSamplingTypes ==
    { "NVML_TOTAL_POWER_SAMPLES", "NVML_MEMORY_UTILIZATION_SAMPLES",
      "NVML_GPU_UTILIZATION_SAMPLES", "NVML_PROCESSOR_CLK_SAMPLES",
      "NVML_MEMORY_CLK_SAMPLES" }

\* The sampling types a caller passes: the default of __init__, which it
\* supports, and one of NVML's sampling types that it refuses.
SamplingTypeInputs ==
    { "NVML_TOTAL_POWER_SAMPLES", "NVML_ENC_UTILIZATION_SAMPLES" }

\* The value type the library reports for its samples: unsigned int, as
\* NVML does for the power, utilization and clock samples __init__ accepts.
ValueTypeInputs == {1}

\* The readings the devices report, in the order the samples are produced
\* (and over again).
Readings == << 5000, 5200, 5100 >>

\* The device counts nvmlDeviceGetCount reports: none, one, and enough for a
\* first, a middle and a last device.
DeviceCounts == {0, 1, 2, 3}

VARIABLES
    phase,             \* the caller's position: "Uninitialized", "Constructed",
                       \* "Failed" (__init__ raised), "TornDown" (__exit__ ran)
    nvmlInitialized,   \* pynvml's process-wide state: nvmlInit has run
    nvmlValueType,     \* the value type the library reports for the metric
    nvmlStrict,        \* the library keeps the contract of timeStamp: it
                       \* returns only samples stamped later
    nvmlDeviceCount,   \* the number of devices the library reports
    nvmlSamples,       \* per device, the samples it has produced so far
    clock,             \* the time stamp of the newest sample produced
    sampling_type,     \* self.sampling_type
    device_count,      \* self.device_count
    handles,           \* self.handles
    logs,              \* self.logs: the opened files
    last_sample_time,  \* self.last_sample_time
    field,             \* self.field
    metric,            \* self.metric
    seen               \* per device, the time stamp of the last sample taken from
                       \* it: no attribute of the reader, kept to say what a
                       \* watermark of that device alone would be

vars == << phase, nvmlInitialized, nvmlValueType, nvmlStrict,
           nvmlDeviceCount,
           nvmlSamples, clock,
           sampling_type, device_count, handles, logs, last_sample_time,
           field, metric, seen >>

\* The process before NvmlReader is called, the library keeping (strict) or
\* breaking the contract of timeStamp.
Start(strict) ==
    /\ nvmlStrict = strict
    /\ phase = "Uninitialized"
    /\ nvmlInitialized = FALSE
    /\ nvmlValueType \in ValueTypeInputs
    /\ nvmlDeviceCount \in DeviceCounts
    /\ nvmlSamples = [d \in 0..(nvmlDeviceCount - 1) |-> << >>]
    /\ clock = 0
    /\ sampling_type = "None"
    /\ device_count = 0
    /\ handles = << >>
    /\ logs = << >>
    /\ last_sample_time = 0
    /\ field = "None"
    /\ metric = "None"
    /\ seen = [d \in 0..(nvmlDeviceCount - 1) |-> 0]

Init == Start(TRUE)

(***************************************************************************)
(* NvmlReader.__init__                                                     *)
(***************************************************************************)
\* OpenLog with the header line written when the file is opened.
OpenLogWithHeader(idx) ==
    [ name |-> idx, closed |-> FALSE,
      lines |-> << [kind |-> "header", time |-> "Time", label |-> "None"] >> ]

\* open(filename, "w") for index idx: a new, empty, open file. The file's
\* name log_file_base_name + "_" + str(idx) + ".csv" is kept as its index.
OpenLog(idx) == [name |-> idx, closed |-> FALSE, lines |-> << >>]

\* The test read: nvmlDeviceGetSamples(device=self.handles[0],
\* sampling_type=self.sampling_type, timeStamp=0), of which __init__ keeps
\* the value type and drops the samples.
TestRead(handle) == [device |-> handle, timeStamp |-> 0]

\* The attributes before __init__ assigns them.
Unset ==
    [ raised |-> "none", init |-> FALSE, sampling_type |-> "None",
      device_count |-> 0, handles |-> << >>, logs |-> << >>,
      last_sample_time |-> 0, field |-> "None", metric |-> "None",
      probe |-> << >> ]

\* __init__ run to its end or to the statement that raises. The inputs:
\* type is the sampling_type argument, initOk whether nvmlInit returns,
\* acquired the number of handles nvmlDeviceGetHandleByIndex returns before
\* it raises (device_count: it never raises), opened the number of files
\* open() opens before it raises (likewise), probeOk whether the test read
\* returns. The result holds the attributes assigned, the exception, and
\* the queries for samples made (probe): the handle and the timeStamp given.
Construct(type, initOk, acquired, opened, probeOk) ==
    LET a1 == [Unset EXCEPT !.sampling_type = type]
        a2 == [a1 EXCEPT !.init = TRUE, !.device_count = nvmlDeviceCount]
        a3 == [a2 EXCEPT !.handles = [i \in 1..acquired |-> i - 1]]
        a4 == [a3 EXCEPT !.logs = [i \in 1..opened |-> OpenLog(i - 1)]]
        a5 == [a4 EXCEPT !.probe = << TestRead(a4.handles[1]) >>]
    IN  IF type \notin SupportedSamplingTypes
          THEN [Unset EXCEPT !.raised = "ValueError"]
        ELSE IF ~initOk
          THEN [a1 EXCEPT !.raised = "NVMLError"]
        ELSE IF acquired < a2.device_count
          THEN [a3 EXCEPT !.raised = "NVMLError"]
        ELSE IF Len(a3.handles) # a3.device_count
          THEN [a3 EXCEPT !.raised = "RuntimeError"]
        ELSE IF opened < Len(a3.handles)
          THEN [a4 EXCEPT !.raised = "OSError"]
        ELSE IF Len(a4.handles) = 0
          THEN [a4 EXCEPT !.raised = "IndexError"]
        ELSE IF ~probeOk
          THEN [a5 EXCEPT !.raised = "NVMLError"]
        ELSE [a5 EXCEPT !.field = SampleValueTypeToField(nvmlValueType),
                        !.metric = SamplingTypeToHeader(type)]

\* NvmlReader(log_file_base_name, sampling_type): the caller gets the object
\* when __init__ returns and nothing when it raises; what __init__ opened
\* or initialised before it raised stays as it is.
__init__ ==
    /\ phase = "Uninitialized"
    /\ \E type \in SamplingTypeInputs, initOk \in BOOLEAN, probeOk \in BOOLEAN,
          acquired \in 0..nvmlDeviceCount, opened \in 0..nvmlDeviceCount :
          LET r == Construct(type, initOk, acquired, opened, probeOk)
          IN  /\ phase' = IF r.raised = "none" THEN "Constructed" ELSE "Failed"
              /\ nvmlInitialized' = r.init
              /\ sampling_type' = r.sampling_type
              /\ device_count' = r.device_count
              /\ handles' = r.handles
              /\ logs' = r.logs
              /\ last_sample_time' = r.last_sample_time
              /\ field' = r.field
              /\ metric' = r.metric
    /\ UNCHANGED << nvmlValueType, nvmlStrict, nvmlDeviceCount, nvmlSamples,
                    clock, seen >>

(***************************************************************************)
(* The library's devices.                                                  *)
(***************************************************************************)
\* A sample's nvmlValue_t union: the library fills the member of the value
\* type it reports with the reading.
SampleValue(reading) == [valueType |-> nvmlValueType, reading |-> reading]

\* getattr(sample.sampleValue, fieldName): the reading when fieldName is the
\* member the library filled, and no reading (0) from another member.
GetAttr(sampleValue, fieldName) ==
    IF fieldName = SampleValueTypeToField(sampleValue.valueType)
      THEN sampleValue.reading
      ELSE 0

\* Device d produces one more sample, stamped later than every sample so
\* far: the devices sample whether or not a reader exists.
Produce(d) ==
    /\ clock < 100 * MaxSamples
    /\ LET reading == Readings[((clock \div 100) % Len(Readings)) + 1]
       IN  nvmlSamples' = [nvmlSamples EXCEPT ![d] =
               Append(@, [timeStamp |-> clock + 100,
                          sampleValue |-> SampleValue(reading)])]
    /\ clock' = clock + 100
    /\ UNCHANGED << phase, nvmlInitialized, nvmlValueType, nvmlStrict,
                    nvmlDeviceCount,
                    sampling_type, device_count, handles, logs,
                    last_sample_time, field, metric, seen >>

\* nvmlDeviceGetSamples(device, sampling_type, timeStamp) when it returns: the
\* device's samples stamped later than timeStamp, oldest first. A library
\* that breaks this contract returns the sample stamped timeStamp as well.
GetSamples(device, timeStamp) ==
    SelectSeq(nvmlSamples[device],
              LAMBDA s : \/ s.timeStamp > timeStamp
                         \/ ~nvmlStrict /\ s.timeStamp = timeStamp)

(***************************************************************************)
(* NvmlReader.log_header                                                   *)
(***************************************************************************)
\* The header line with self.field, the name of the union member, in the
\* place of self.metric.
HeaderLineField(label) == [kind |-> "header", time |-> "Time", label |-> field]

\* f"Time,{self.metric}\n": the header line, kept as its comma-separated parts.
HeaderLine(label) == [kind |-> "header", time |-> "Time", label |-> label]

\* f"{sample.timeStamp},{getattr(sample.sampleValue, self.field)}\n".
SampleLine(sample, fieldName) ==
    [kind |-> "sample", timeStamp |-> sample.timeStamp,
     value |-> GetAttr(sample.sampleValue, fieldName)]

\* The position of the first closed file of files, or Len(files) + 1: a
\* write to a closed file raises ValueError and ends the loop over the files.
FirstClosed(files) ==
    IF \E i \in 1..Len(files) : files[i].closed
      THEN CHOOSE i \in 1..Len(files) :
             /\ files[i].closed
             /\ \A j \in 1..(i - 1) : ~files[j].closed
      ELSE Len(files) + 1

\* The number of header lines of a file.
HeaderCount(file) ==
    Cardinality({i \in 1..Len(file.lines) : file.lines[i].kind = "header"})

log_header ==
    /\ phase \in {"Constructed", "TornDown"}
    /\ \A i \in 1..Len(logs) : HeaderCount(logs[i]) < MaxHeaders
    /\ LET header_string == HeaderLine(metric)
           stop == FirstClosed(logs)
       IN  /\ logs' = [i \in 1..Len(logs) |->
                         IF i < stop
                           THEN [logs[i] EXCEPT !.lines = Append(@, header_string)]
                           ELSE logs[i]]
    /\ UNCHANGED << phase, nvmlInitialized, nvmlValueType, nvmlStrict,
                    nvmlDeviceCount,
                    nvmlSamples, clock, sampling_type, device_count, handles,
                    last_sample_time, field, metric, seen >>

(***************************************************************************)
(* NvmlReader.log_samples and NvmlReader.set_last_seen                     *)
(***************************************************************************)
\* One entry of cycle, the record of one pass of the loop: the device index,
\* the timeStamp passed to nvmlDeviceGetSamples, how the query ended
\* ("NVMLError", "empty", "samples") and last_sample_time after the pass.
Queried(id, timeStamp, result, after) ==
    [id |-> id, timeStamp |-> timeStamp, result |-> result, after |-> after]

\* The except branch: the warning is printed and the loop goes on.
OnNvmlError(st, id) ==
    [st EXCEPT !.cycle = Append(@, Queried(id, st.last_sample_time, "NVMLError",
                                           st.last_sample_time))]

\* OnEmpty as it would be with the empty list taken for "nothing seen yet":
\* the watermark goes back to 0 and the loop goes on.
OnEmptyResets(st, id) ==
    [st EXCEPT !.cycle = Append(@, Queried(id, st.last_sample_time, "empty",
                                           0)),
               !.last_sample_time = 0]

\* samples[-1] of an empty list: IndexError, which no except clause of the
\* method catches; the method ends there.
OnEmpty(st, id) ==
    [st EXCEPT !.cycle = Append(@, Queried(id, st.last_sample_time, "empty",
                                           st.last_sample_time)),
               !.raised = "IndexError"]

\* Advance without the assignment to self.last_sample_time.
AdvanceStale(st, id, handle, samples) ==
    [st EXCEPT !.cycle = Append(@, Queried(id, st.last_sample_time, "samples",
                                           st.last_sample_time))]

\* self.last_sample_time = samples[-1].timeStamp
Advance(st, id, handle, samples) ==
    [st EXCEPT !.cycle = Append(@, Queried(id, st.last_sample_time, "samples",
                                           samples[Len(samples)].timeStamp)),
               !.last_sample_time = samples[Len(samples)].timeStamp,
               !.seen[handle] = samples[Len(samples)].timeStamp]

\* The for loop over the samples: one line per sample written to
\* self.logs[id]; the first write to a closed file raises ValueError.
WriteSamples(st, id, samples) ==
    IF st.logs[id + 1].closed
      THEN [st EXCEPT !.raised = "ValueError"]
      ELSE [st EXCEPT !.logs[id + 1].lines =
                @ \o [k \in 1..Len(samples) |-> SampleLine(samples[k], field)]]

\* LogSamplesBody with a filter of its own: only the samples stamped later
\* than the watermark are taken, and none of them is an empty result.
LogSamplesBodyFiltered(st, id, handle, samples) ==
    LET newer == SelectSeq(samples,
                           LAMBDA s : s.timeStamp > st.last_sample_time)
    IN  IF newer = << >>
          THEN OnEmpty(st, id)
          ELSE WriteSamples(Advance(st, id, handle, newer), id, newer)

\* What log_samples does with the samples of a query that returned some.
LogSamplesBody(st, id, handle, samples) ==
    WriteSamples(Advance(st, id, handle, samples), id, samples)

\* set_last_seen with the write loop of log_samples left in.
SetLastSeenWrites(st, id, handle, samples) ==
    WriteSamples(Advance(st, id, handle, samples), id, samples)

\* What set_last_seen does with them.
SetLastSeenBody(st, id, handle, samples) ==
    Advance(st, id, handle, samples)

\* enumerate(self.handles): the indices the loop visits, in order.
Enumerate == [i \in 1..Len(handles) |-> i - 1]

\* The loop of log_samples (write) and of set_last_seen (~write) over the
\* indices ids: the set of the ways it can end, each query either raising
\* NVMLError or returning the device's newer samples. st holds
\* last_sample_time, logs and seen as the loop changes them, the record of
\* its passes (cycle) and the exception that ended it (raised).
RECURSIVE Poll(_, _, _)
Poll(ids, write, st) ==
    IF ids = << >> \/ st.raised # "none"
      THEN {st}
      ELSE LET id == Head(ids)
               handle == handles[id + 1]
               samples == GetSamples(handle, st.last_sample_time)
           IN  Poll(Tail(ids), write, OnNvmlError(st, id))
               \cup
               ( IF samples = << >>
                   THEN {OnEmpty(st, id)}
                 ELSE IF write
                   THEN Poll(Tail(ids), write,
                             LogSamplesBody(st, id, handle, samples))
                 ELSE Poll(Tail(ids), write,
                           SetLastSeenBody(st, id, handle, samples)) )

\* The state a call of log_samples or set_last_seen starts its loop in.
LoopStart ==
    [ last_sample_time |-> last_sample_time, logs |-> logs, cycle |-> << >>,
      raised |-> "none", seen |-> seen ]

\* The ways a call log_samples() can end.
LogSamples == Poll(Enumerate, TRUE, LoopStart)

\* The ways a call set_last_seen() can end.
SetLastSeen == Poll(Enumerate, FALSE, LoopStart)

\* What a call leaves behind in the object.
Effect(st) == << st.last_sample_time, st.logs, st.seen >>

log_samples ==
    /\ phase \in {"Constructed", "TornDown"}
    /\ \E e \in {Effect(st) : st \in LogSamples} :
          /\ last_sample_time' = e[1]
          /\ logs' = e[2]
          /\ seen' = e[3]
    /\ UNCHANGED << phase, nvmlInitialized, nvmlValueType, nvmlStrict,
                    nvmlDeviceCount,
                    nvmlSamples, clock, sampling_type, device_count, handles,
                    field, metric >>

set_last_seen ==
    /\ phase \in {"Constructed", "TornDown"}
    /\ \E e \in {Effect(st) : st \in SetLastSeen} :
          /\ last_sample_time' = e[1]
          /\ logs' = e[2]
          /\ seen' = e[3]
    /\ UNCHANGED << phase, nvmlInitialized, nvmlValueType, nvmlStrict,
                    nvmlDeviceCount,
                    nvmlSamples, clock, sampling_type, device_count, handles,
                    field, metric >>

(***************************************************************************)
(* NvmlReader.__exit__                                                     *)
(***************************************************************************)
\* log.close()
Close(file) == [file EXCEPT !.closed = TRUE]

\* __exit__ run to its end or to the close() that raises. failing is the
\* position in self.logs of the file whose close() raises (its flush fails;
\* Python closes the file all the same), 0 when none does: the exception
\* leaves the loop, and the files after that one are not reached. init is
\* the library's state the method leaves.
Exit(failing) ==
    [ logs |-> [i \in 1..Len(logs) |->
                  IF failing = 0 \/ i <= failing THEN Close(logs[i])
                                                 ELSE logs[i]],
      raised |-> IF failing = 0 THEN "none" ELSE "OSError",
      init |-> nvmlInitialized ]

__exit__ ==
    /\ phase = "Constructed"
    /\ phase' = "TornDown"
    /\ \E failing \in 0..Len(logs) :
          /\ logs' = Exit(failing).logs
          /\ nvmlInitialized' = Exit(failing).init
    /\ UNCHANGED << nvmlValueType, nvmlStrict, nvmlDeviceCount,
                    nvmlSamples, clock, sampling_type, device_count, handles,
                    last_sample_time, field, metric, seen >>

Next ==
    \/ __init__
    \/ \E d \in 0..(nvmlDeviceCount - 1) : Produce(d)
    \/ log_header
    \/ log_samples
    \/ set_last_seen
    \/ __exit__

Spec == Init /\ [][Next]_vars

(***************************************************************************)
(* The polling of a reader against a library that breaks the contract of   *)
(* timeStamp: construction, the devices, log_samples and set_last_seen.    *)
(* Every log_samples call may then append the sample at the watermark once *)
(* more, so the calls are followed while no log holds MaxLines sample      *)
(* lines.                                                                  *)
(***************************************************************************)
InitStale == Start(FALSE)

NextStale ==
    \/ __init__
    \/ \E d \in 0..(nvmlDeviceCount - 1) : Produce(d)
    \/ /\ \A i \in 1..Len(logs) :
            Cardinality({k \in 1..Len(logs[i].lines) :
                           logs[i].lines[k].kind = "sample"}) < MaxLines
       /\ log_samples
    \/ set_last_seen

SpecStale == InitStale /\ [][NextStale]_vars

(***************************************************************************)
(* What the properties below speak of.                                     *)
(***************************************************************************)
\* The passes of a call's loop.
Entries(st) == {st.cycle[k] : k \in 1..Len(st.cycle)}

\* The device indices a call queried.
QueriedIds(st) == {e.id : e \in Entries(st)}

\* The time stamps of the sample lines of a file, in the order written.
SampleStamps(file) ==
    LET ls == SelectSeq(file.lines, LAMBDA l : l.kind = "sample")
    IN  [k \in 1..Len(ls) |-> ls[k].timeStamp]

\* The time stamp of the last sample line of a file, 0 when it has none.
LastLogged(file) ==
    LET ts == SampleStamps(file)
    IN  IF ts = << >> THEN 0 ELSE ts[Len(ts)]

\* The lines log_samples writes for the samples a query returned.
LinesOf(samples) ==
    [k \in 1..Len(samples) |->
        [kind |-> "sample", timeStamp |-> samples[k].timeStamp,
         value |-> samples[k].sampleValue.reading]]

\* The sequence ids without the index id.
Without(ids, id) == SelectSeq(ids, LAMBDA x : x # id)

\* The object exists and __exit__ has not run.
Polling == phase = "Constructed"

(***************************************************************************)
(* C1: in one log_samples cycle a query failure (NVMLError) of a device    *)
(* never aborts the cycle: every device is still queried in that cycle,    *)
(* and a device whose query returns samples has them appended to its log.  *)
(***************************************************************************)
C1_FailureNeverAbortsCycle ==
    Polling =>
      \A st \in LogSamples :
        (\E e \in Entries(st) : e.result = "NVMLError") =>
          \A j \in 0..(Len(handles) - 1) :
            \E e \in Entries(st) :
              /\ e.id = j
              /\ e.result = "samples" =>
                   st.logs[j + 1].lines =
                     logs[j + 1].lines
                       \o LinesOf(GetSamples(handles[j + 1], e.timeStamp))

(***************************************************************************)
(* C2: when a device's query fails in a cycle, the time stamp its next     *)
(* query will be given and its log are after the cycle what they were      *)
(* before it, and the cycle leaves every log and the watermark as the      *)
(* same cycle without that device would.                                   *)
(***************************************************************************)
C2_FailedDeviceUntouched ==
    Polling =>
      \A st \in LogSamples :
        \A e \in Entries(st) :
          e.result = "NVMLError" =>
            /\ st.logs[e.id + 1] = logs[e.id + 1]
            /\ st.last_sample_time = last_sample_time
            /\ \E other \in Poll(Without(Enumerate, e.id), TRUE, LoopStart) :
                 Effect(other) = Effect(st)

(***************************************************************************)
(* C3: in every log the time stamps of the sample lines are strictly       *)
(* increasing in the order written, whatever calls of log_samples and      *)
(* set_last_seen were made.                                                *)
(***************************************************************************)
C3_LoggedStampsIncrease ==
    \A i \in 1..Len(logs) :
      \A k \in 1..(Len(SampleStamps(logs[i])) - 1) :
        SampleStamps(logs[i])[k] < SampleStamps(logs[i])[k + 1]

\* Two batches were written to one log and one to another.
C3_Witness ==
    \E i, j \in 1..Len(logs) :
      /\ i # j
      /\ Len(SampleStamps(logs[i])) >= 2
      /\ Len(SampleStamps(logs[j])) >= 1
      /\ LastLogged(logs[j]) > SampleStamps(logs[i])[1]
      /\ LastLogged(logs[j]) < LastLogged(logs[i])

(***************************************************************************)
(* C4: with two or more devices and only log_samples cycles so far (every  *)
(* sample taken from a device is in its log), a query that returns samples *)
(* leaves in the device's log every sample the device produced after the   *)
(* last one logged and up to the newest one returned.                      *)
(***************************************************************************)
C4_NoSampleSkipped ==
    ( /\ Polling
      /\ Len(handles) >= 2
      /\ \A i \in 1..Len(handles) : seen[handles[i]] = LastLogged(logs[i]) ) =>
      \A st \in LogSamples :
        \A e \in Entries(st) :
          e.result = "samples" =>
            \A k \in 1..Len(nvmlSamples[handles[e.id + 1]]) :
              LET t == nvmlSamples[handles[e.id + 1]][k].timeStamp
              IN  (t > LastLogged(logs[e.id + 1]) /\ t <= e.after) =>
                    \E n \in 1..Len(SampleStamps(st.logs[e.id + 1])) :
                      SampleStamps(st.logs[e.id + 1])[n] = t

(***************************************************************************)
(* C5: a query that returns an empty list, in log_samples or in            *)
(* set_last_seen, writes nothing, leaves the watermark, raises nothing,    *)
(* and the cycle goes on to the remaining devices.                         *)
(***************************************************************************)
C5_EmptyResultIsHarmless ==
    Polling =>
      \A st \in LogSamples \cup SetLastSeen :
        \A e \in Entries(st) :
          e.result = "empty" =>
            /\ st.raised = "none"
            /\ e.after = e.timeStamp
            /\ st.logs[e.id + 1] = logs[e.id + 1]
            /\ QueriedIds(st) = 0..(Len(handles) - 1)

(***************************************************************************)
(* C6: the timeStamp a query of device i is given is the time stamp of the *)
(* last sample taken from device i itself, 0 when none was taken.          *)
(***************************************************************************)
C6_WatermarkPerDevice ==
    phase \in {"Constructed", "TornDown"} =>
      \A st \in LogSamples \cup SetLastSeen :
        \A e \in Entries(st) :
          e.timeStamp = seen[handles[e.id + 1]]

C8_FailedConstructionLeavesNothingOpen ==
    /\ phase = "Uninitialized" =>
         \A type \in SamplingTypeInputs, initOk \in BOOLEAN, probeOk \in BOOLEAN,
            acquired \in 0..nvmlDeviceCount, opened \in 0..nvmlDeviceCount :
            ( \/ type \notin SupportedSamplingTypes
              \/ acquired < nvmlDeviceCount
              \/ opened < nvmlDeviceCount
              \/ ~probeOk ) =>
              Construct(type, initOk, acquired, opened, probeOk).raised # "none"
    /\ phase = "Failed" => \A i \in 1..Len(logs) : logs[i].closed

(***************************************************************************)
(* C9: after __exit__ every log file is closed and the library, which      *)
(* __init__ initialised, has been shut down and is no longer held.         *)
(***************************************************************************)
C9_TeardownReleasesEverything ==
    phase = "TornDown" =>
      /\ \A i \in 1..Len(logs) : logs[i].closed
      /\ ~nvmlInitialized

(***************************************************************************)
(* C10: after __exit__ a call of log_samples or set_last_seen is rejected: *)
(* it raises, makes no query, and changes neither the watermark nor a log. *)
(***************************************************************************)
C10_NoPollAfterTeardown ==
    phase = "TornDown" =>
      \A st \in LogSamples \cup SetLastSeen :
        /\ st.raised # "none"
        /\ st.cycle = << >>
        /\ st.last_sample_time = last_sample_time
        /\ st.logs = logs

(***************************************************************************)
(* C11: the watermark is 0 when __init__ returns, whatever samples the     *)
(* devices hold for the test read; no step of the reader ever lowers it;   *)
(* log_header leaves it; and within a call of log_samples or set_last_seen *)
(* each pass of the loop is given the watermark the pass before left and   *)
(* leaves it unchanged or raised, changing it only when its query returned *)
(* samples.                                                                *)
(***************************************************************************)
C11_AfterConstruction ==
    phase = "Uninitialized" =>
      \A type \in SamplingTypeInputs, initOk \in BOOLEAN, probeOk \in BOOLEAN,
         acquired \in 0..nvmlDeviceCount, opened \in 0..nvmlDeviceCount :
         Construct(type, initOk, acquired, opened, probeOk).last_sample_time = 0

C11_Call(st) ==
    /\ st.last_sample_time >= last_sample_time
    /\ st.cycle = << >> => st.last_sample_time = last_sample_time
    /\ \A k \in 1..Len(st.cycle) :
         LET e == st.cycle[k]
             before == IF k = 1 THEN last_sample_time
                                ELSE st.cycle[k - 1].after
         IN  /\ e.timeStamp = before
             /\ e.after >= before
             /\ e.after # before => e.result = "samples"
             /\ k = Len(st.cycle) => st.last_sample_time = e.after

C11_Calls ==
    phase \in {"Constructed", "TornDown"} =>
      /\ \A st \in LogSamples : C11_Call(st)
      /\ \A st \in SetLastSeen : C11_Call(st)

C11_Step ==
    /\ last_sample_time' >= last_sample_time
    /\ log_header => last_sample_time' = last_sample_time
    /\ phase = "Uninitialized" => last_sample_time' = 0

C11_WatermarkMonotone ==
    /\ [](C11_AfterConstruction /\ C11_Calls)
    /\ [][C11_Step]_vars

\* The watermark was raised more than once, a header was written, and the
\* next call has a pass that returns samples and a pass that does not.
C11_Witness ==
    /\ Polling
    /\ last_sample_time >= 200
    /\ \E i \in 1..Len(logs) : HeaderCount(logs[i]) > 0
    /\ \E st \in LogSamples \cup SetLastSeen :
         /\ \E e \in Entries(st) : e.result = "samples"
         /\ \E e \in Entries(st) : e.result # "samples"

(***************************************************************************)
(* C12: between construction and teardown a call of log_header appends to  *)
(* every log exactly one line "Time,<label>", the label being the one the  *)
(* table binds to the sampling type given at construction, and changes     *)
(* nothing else: not the watermark, not the handles, not what the devices  *)
(* hold. So every log holds as many header lines as log_header was called, *)
(* each with that label, and a log whose only line is a header of a reader *)
(* for NVML_TOTAL_POWER_SAMPLES holds exactly "Time,Power".                *)
(***************************************************************************)
C12_Label == SamplingTypeToHeader(sampling_type)

C12_Step ==
    (Polling /\ log_header) =>
      /\ Len(logs') = Len(logs)
      /\ \A i \in 1..Len(logs) :
           logs'[i] = [logs[i] EXCEPT !.lines =
             Append(@, [kind |-> "header", time |-> "Time", label |-> C12_Label])]
      /\ UNCHANGED << last_sample_time, seen, handles, device_count,
                      sampling_type, field, metric, nvmlSamples, clock,
                      nvmlInitialized, phase >>

C12_Headers ==
    Polling =>
      \A i \in 1..Len(logs) :
        /\ HeaderCount(logs[i]) = HeaderCount(logs[1])
        /\ \A k \in 1..Len(logs[i].lines) :
             logs[i].lines[k].kind = "header" =>
               /\ logs[i].lines[k].time = "Time"
               /\ logs[i].lines[k].label = C12_Label
               /\ C12_Label \in {"Power", "Memory Util", "GPU Util", "GPU Clk",
                                  "Memory Clk"}
        /\ ( /\ sampling_type = "NVML_TOTAL_POWER_SAMPLES"
             /\ Len(logs[i].lines) = 1
             /\ HeaderCount(logs[i]) = 1 ) =>
               logs[i].lines =
                 << [kind |-> "header", time |-> "Time", label |-> "Power"] >>

C12_HeaderPerCall ==
    /\ []C12_Headers
    /\ [][C12_Step]_vars

\* log_header was called twice on a reader of two or more devices for
\* Power, with samples logged between the two calls.
C12_Witness ==
    /\ Polling
    /\ Len(logs) >= 2
    /\ sampling_type = "NVML_TOTAL_POWER_SAMPLES"
    /\ \A i \in 1..Len(logs) : HeaderCount(logs[i]) = 2
    /\ \E i \in 1..Len(logs) :
         /\ Len(logs[i].lines) >= 3
         /\ logs[i].lines[1].kind = "header"
         /\ logs[i].lines[2].kind = "sample"
         /\ logs[i].lines[Len(logs[i].lines)].kind = "header"

(***************************************************************************)
(* C13: when in __exit__ the close of one log file raises, every other log *)
(* file is closed all the same when __exit__ is left, and the library has  *)
(* been released.                                                          *)
(***************************************************************************)
C13_TeardownBestEffort ==
    Polling =>
      \A failing \in 1..Len(logs) :
        /\ \A j \in 1..Len(logs) : j # failing => Exit(failing).logs[j].closed
        /\ ~Exit(failing).init

(***************************************************************************)
(* C14: in log_samples a query that returned samples raises the watermark  *)
(* to the newest of them only when every one of them is in the device's    *)
(* log, one line each, in the order returned, also when a write raises.    *)
(***************************************************************************)
C14_WatermarkAfterWrites ==
    phase \in {"Constructed", "TornDown"} =>
      \A st \in LogSamples :
        \A e \in Entries(st) :
          LET returned == GetSamples(handles[e.id + 1], e.timeStamp)
          IN  ( /\ e.result = "samples"
                /\ e.after = returned[Len(returned)].timeStamp ) =>
                  st.logs[e.id + 1].lines =
                    logs[e.id + 1].lines \o LinesOf(returned)

(***************************************************************************)
(* C15: log_samples takes what a query returns as it is. When the library  *)
(* returns a sample stamped no later than the timeStamp it was given, the  *)
(* call still appends one line for every sample returned, in the order     *)
(* returned, and sets the watermark to the time stamp of the last one;     *)
(* when the library returns nothing, the call appends no line.             *)
(***************************************************************************)
C15_NoFiltering ==
    Polling =>
      \A st \in LogSamples :
        \A e \in Entries(st) :
          LET returned == GetSamples(handles[e.id + 1], e.timeStamp)
          IN  /\ (e.result # "NVMLError" /\ returned # << >>) =>
                   /\ st.logs[e.id + 1].lines =
                        logs[e.id + 1].lines \o LinesOf(returned)
                   /\ e.after = returned[Len(returned)].timeStamp
              /\ (e.result # "NVMLError" /\ returned = << >>) =>
                   st.logs[e.id + 1].lines = logs[e.id + 1].lines

\* The library answers a query with the sample at the watermark, which the
\* log already holds, and a newer one.
C15_Witness ==
    /\ Polling
    /\ ~nvmlStrict
    /\ \E st \in LogSamples :
         \E e \in Entries(st) :
           LET returned == GetSamples(handles[e.id + 1], e.timeStamp)
           IN  /\ e.result = "samples"
               /\ Len(returned) >= 2
               /\ returned[1].timeStamp = e.timeStamp
               /\ LastLogged(logs[e.id + 1]) = e.timeStamp

(***************************************************************************)
(* C16: a construction that succeeds makes one query for samples, of the   *)
(* first device with timeStamp 0, and keeps nothing of its samples: when   *)
(* __init__ returns there is one open, empty log per device, the watermark *)
(* is 0, the devices hold what they held, and of the answer only the value *)
(* type is kept, as the field name, which no later call changes.           *)
(***************************************************************************)
C16_Construction ==
    phase = "Uninitialized" =>
      \A type \in SamplingTypeInputs, initOk \in BOOLEAN, probeOk \in BOOLEAN,
         acquired \in 0..nvmlDeviceCount, opened \in 0..nvmlDeviceCount :
         LET r == Construct(type, initOk, acquired, opened, probeOk)
         IN  r.raised = "none" =>
               /\ r.probe = << [device |-> 0, timeStamp |-> 0] >>
               /\ Len(r.logs) = nvmlDeviceCount
               /\ \A i \in 1..Len(r.logs) :
                    r.logs[i] = [name |-> i - 1, closed |-> FALSE, lines |-> << >>]
               /\ r.last_sample_time = 0
               /\ r.field = SampleValueTypeToField(nvmlValueType)
               /\ r.field \in FieldNames

C16_Step ==
    /\ (phase = "Uninitialized" /\ phase' = "Constructed") =>
          /\ \A i \in 1..Len(logs') : logs'[i].lines = << >> /\ ~logs'[i].closed
          /\ Len(logs') = nvmlDeviceCount
          /\ last_sample_time' = 0
          /\ field' = SampleValueTypeToField(nvmlValueType)
          /\ UNCHANGED << nvmlSamples, seen, clock >>
    /\ phase \in {"Constructed", "TornDown"} => field' = field

C16_ProbeKeepsOnlyTag ==
    /\ []C16_Construction
    /\ [][C16_Step]_vars

\* The devices hold samples, the first one too, when a reader of two or
\* more devices is constructed.
C16_Witness ==
    /\ phase = "Uninitialized"
    /\ nvmlDeviceCount >= 2
    /\ Len(nvmlSamples[0]) >= 2
    /\ \E d \in 1..(nvmlDeviceCount - 1) : Len(nvmlSamples[d]) >= 1
    /\ \E type \in SamplingTypeInputs :
         Construct(type, TRUE, nvmlDeviceCount, nvmlDeviceCount, TRUE).raised
           = "none"

(***************************************************************************)
(* C17: between construction and teardown there are as many logs as        *)
(* handles as devices reported, log i and handle i are those of device i,  *)
(* every log is open, a call of log_samples or set_last_seen leaves the    *)
(* logs' number, order and being open as they are, and it queries every    *)
(* device exactly once, in the order 0..N-1.                               *)
(***************************************************************************)
C17_Shape ==
    /\ Len(logs) = Len(handles)
    /\ Len(handles) = device_count
    /\ device_count = nvmlDeviceCount
    /\ \A i \in 1..Len(logs) :
         /\ logs[i].name = i - 1
         /\ handles[i] = i - 1
         /\ ~logs[i].closed

C17_CallKeepsShape(st) ==
    /\ Len(st.logs) = Len(logs)
    /\ \A i \in 1..Len(logs) :
         /\ st.logs[i].name = logs[i].name
         /\ st.logs[i].closed = logs[i].closed

C17_StructureAndOrder ==
    Polling =>
      /\ C17_Shape
      /\ \A st \in LogSamples \cup SetLastSeen :
           /\ C17_CallKeepsShape(st)
           /\ [k \in 1..Len(st.cycle) |-> st.cycle[k].id] = Enumerate

====
